---- MODULE Spec2Model ----
(***************************************************************************)
(* Model of the BME high-voltage power supply controller:                  *)
(*   - bme_hv_psu/poller.py: Poller (background poll loop, bus lock,       *)
(*     control writes, stop)                                               *)
(*   - bme_hv_psu/artiq_controller.py: Interface (get_voltage,             *)
(*     set_voltage, reset_fault) on top of one Poller.                     *)
(*                                                                         *)
(* asyncio runs every coroutine atomically from one suspension point to    *)
(* the next, so one action is one such stretch.  The blocking bus calls    *)
(* run on executor threads, concurrently with the event loop: the start    *)
(* and the return of each bus call are steps of their own.                 *)
(*                                                                         *)
(* Voltages are integers counted in nanovolts; the normalised set point    *)
(* handed to the Poller is the exact rational num / den.                   *)
(***************************************************************************)
EXTENDS Integers, Sequences, FiniteSets, TLC

\* --voltage-factor, in nanovolts (a start-up argument of the controller).
VoltageFactor == 2000000001

\* Denominator of the grid of set points a direct caller of
\* Poller.set_hv_set_point tries: value = n / SetPointDen.
SetPointDen == 2

\* 1 / rel_tol of math.isclose (rel_tol = 1e-09, abs_tol = 0.0).
RelTolInv == 1000000000

\* 2**12 - 1, the full scale of a 12-bit register.
FullScale == 2^12 - 1

\* Optional values: None, or a one-element tuple.
None == <<>>
Some(v) == <<v>>

NoProc == "none"
Poll == "poll"
Seq1 == "seq"
Man == "man"
Clients == {Seq1, Man}
Procs == {Poll} \cup Clients

\* Arguments tried for Interface.set_voltage.
VoltInputs == {-1, 0, VoltageFactor - 1, VoltageFactor, VoltageFactor + 1}

\* Numerators tried for Poller.set_hv_set_point (over SetPointDen).
SetPointInputs == (-1)..(SetPointDen + 1)

\* Status updates the bus returns: <<type, raw value>>.
StatusFlags == "status_flags"
Analog == "umon_up"
Unregistered == "unregistered"
StateUpdates == {<<Analog, 0>>, <<Analog, FullScale>>,
                 <<StatusFlags, 5>>, <<Unregistered, 7>>}

\* callbacks_for_states of setup_interface: the analog channels and the
\* status flags.
CallbacksForStates == {Analog, StatusFlags}

\* Bus calls of driver.I2CInterface.
ReadStateUpdate == [fn |-> "read_state_update", flags |-> {}, raw |-> 0]
WriteControlFlags(fl) == [fn |-> "write_control_flags", flags |-> fl, raw |-> 0]
WriteHvSetPoint(r) == [fn |-> "write_hv_set_point", flags |-> {}, raw |-> r]
\* How a call ended: "none" while it runs, "ok" (returned None), "true" /
\* "false", "value" (get_voltage, with the value), or the exception raised.
Ret(kind) == [kind |-> kind, val |-> None]
RetValue(v) == [kind |-> "value", val |-> v]

\* An asyncio.sleep(2.0) of set_voltage, as an entry of a call's trace.
SettleDelay == [fn |-> "sleep", flags |-> {}, raw |-> 0]

VARIABLES
    ctrl,        \* Interface._set_point_volts: None or Some(volts)
    shutdown,    \* Poller._shutdown
    pollpc,      \* position of Poller._run_poll_loop
    stoppc,      \* position of the caller of Poller.stop
    lock,        \* Poller._interface_lock: [holder, waiters]
    job,         \* per process: the bus calls its executor job has still to make
    inCall,      \* per process: a bus call of its job has started, not returned
    pc,          \* per client: position in its current call
    op,          \* per client: the operation of its current or last call
    arg,         \* per client: the argument of that call
    first,       \* set_voltage's local `first`
    ret,         \* per client: how its last call ended
    trace,       \* per client: bus calls started and delays entered by the call
    startState,  \* ControllerState when the sequencer's call started
    lastCtl,     \* flags of the most recent control write issued to the bus
    delivered,   \* what the callback of the current iteration was invoked with
    serial,      \* no two client calls have overlapped so far
    ahead        \* per client waiting for the lock: poll reads that have had
                 \* the lock since it began to wait

vars == <<ctrl, shutdown, pollpc, stoppc, lock, job, inCall, pc, op, arg,
          first, ret, trace, startState, lastCtl, delivered, serial, ahead>>

----
\* Arithmetic.

Abs(x) == IF x < 0 THEN -x ELSE x
Max(a, b) == IF a >= b THEN a ELSE b

\* math.isclose(a, b) with the default tolerances.
IsClose(a, b) ==
    a = b \/ Abs(a - b) <= Max(Abs(a), Abs(b)) \div RelTolInv

\* a + b for 0 <= a, b < d, as <<carry, sum mod d>>, never exceeding d.
AddMod(a, b, d) ==
    IF a >= d - b THEN <<1, a - (d - b)>> ELSE <<0, a + b>>

\* <<q, r>> with n * k = q * d + r and 0 <= r < d, for 0 <= n < d, computed
\* by doubling so that no intermediate value exceeds d; h is the result for
\* k \div 2, computed once.
RECURSIVE MulDivMod(_, _, _)
MulDivMod(n, k, d) ==
    IF k = 0 THEN <<0, 0>>
    ELSE CHOOSE qr \in
            {LET dbl == AddMod(h[2], h[2], d)
                 q2 == 2 * h[1] + dbl[1]
             IN  IF k % 2 = 0 THEN <<q2, dbl[2]>>
                 ELSE LET s == AddMod(dbl[2], n, d)
                      IN  <<q2 + s[1], s[2]>>
             : h \in {MulDivMod(n, k \div 2, d)}} : TRUE

\* int(round(value * (2**12 - 1))) for value = num / den, den > 0: Python's
\* round, to the nearest integer, a tie to the even one.
RawSetPoint(num, den) ==
    LET qr == MulDivMod(num % den, FullScale, den)
        q == FullScale * (num \div den) + qr[1]
        r == qr[2]
    IN  IF r > den - r THEN q + 1
        ELSE IF r < den - r THEN q
        ELSE IF q % 2 = 0 THEN q ELSE q + 1

----
\* asyncio.Lock: first come, first served; release hands the lock to the
\* first waiter.

\* Acquire as it would be if _run_on_hardware ran its job without taking the
\* lock.
AcquireWithoutLock(l, p) == l

Acquire(l, p) ==
    IF l.holder = NoProc
    THEN [holder |-> p, waiters |-> l.waiters]
    ELSE [holder |-> l.holder, waiters |-> Append(l.waiters, p)]

\* Release as it would be if the lock went to the waiter that came last.
ReleaseToLast(l, p) ==
    IF l.holder # p THEN l
    ELSE IF l.waiters = <<>> THEN [holder |-> NoProc, waiters |-> <<>>]
    ELSE [holder |-> l.waiters[Len(l.waiters)],
          waiters |-> SubSeq(l.waiters, 1, Len(l.waiters) - 1)]

Release(l, p) ==
    IF l.holder # p THEN l
    ELSE IF l.waiters = <<>> THEN [holder |-> NoProc, waiters |-> <<>>]
    ELSE [holder |-> Head(l.waiters), waiters |-> Tail(l.waiters)]

\* HeldBetweenCalls as it would be if every bus call took the lock on its
\* own, giving it up after each.
ReleasedBetweenCalls(l, p) == Release(l, p)

\* The `with` block of _run_on_hardware spans the whole job: the lock stays
\* with p from one bus call of the job to the next.
HeldBetweenCalls(l, p) == l

Waiting(p) == \E i \in 1..Len(lock.waiters) : lock.waiters[i] = p

\* p is queued for the lock l.
Queued(l, p) == \E i \in 1..Len(l.waiters) : l.waiters[i] = p

\* The count of poll reads a queued client has waited behind stops here.
MaxReadsAhead == 2

\* ahead after a step that takes the lock from l to l2: a client that joins
\* the queue counts the poll read that has the lock at that moment, a
\* client in the queue counts every poll read that gets the lock, and a
\* client out of the queue counts nothing.
ReadsAhead(l, l2) ==
    [p \in Clients |->
        IF ~Queued(l2, p) THEN 0
        ELSE IF ~Queued(l, p) THEN (IF l2.holder = Poll THEN 1 ELSE 0)
        ELSE IF l.holder # Poll /\ l2.holder = Poll
             THEN IF ahead[p] < MaxReadsAhead THEN ahead[p] + 1 ELSE ahead[p]
             ELSE ahead[p]]

\* The job of p has been handed to the executor (p is past the lock).
Running(p) == job[p] # <<>> /\ ~Waiting(p)

----
\* The Poller's control operations: the bus calls each hands to
\* _run_on_hardware.

EnableHvCalls(enabled) ==
    <<WriteControlFlags(IF enabled THEN {"hv_on"} ELSE {})>>

\* SetPointRejected as it would be without the check against 1.
SetPointRejectedBelowOnly(num, den) == num < 0

SetPointRejected(num, den) == num < 0 \/ num > den

\* SetPointCalls as it would be with int() alone, without round().
SetPointCallsTruncated(num, den) ==
    <<WriteHvSetPoint(FullScale * (num \div den)
                      + MulDivMod(num % den, FullScale, den)[1])>>

SetPointCalls(num, den) == <<WriteHvSetPoint(RawSetPoint(num, den))>>

ResetFaultCalls == <<WriteControlFlags({"reset"}), WriteControlFlags({})>>

----
Init ==
    /\ ctrl = None
    /\ shutdown = FALSE
    /\ pollpc = "loop"
    /\ stoppc = "idle"
    /\ lock = [holder |-> NoProc, waiters |-> <<>>]
    /\ job = [p \in Procs |-> <<>>]
    /\ inCall = [p \in Procs |-> FALSE]
    /\ pc = [p \in Clients |-> "idle"]
    /\ op = [p \in Clients |-> "none"]
    /\ arg = [p \in Clients |-> 0]
    /\ first = FALSE
    /\ ret = [p \in Clients |-> Ret("none")]
    /\ trace = [p \in Clients |-> <<>>]
    /\ startState = None
    /\ lastCtl = None
    /\ delivered = None
    /\ serial = TRUE
    /\ ahead = [p \in Clients |-> 0]

----
\* The background poll loop, Poller._run_poll_loop.

\* PollIterate as it would be if the loop did not look at _shutdown.
PollIterateUnchecked ==
    /\ pollpc = "loop"
    /\ pollpc' = "read"
    /\ job' = [job EXCEPT ![Poll] = <<ReadStateUpdate>>]
    /\ lock' = Acquire(lock, Poll)
    /\ delivered' = None
    /\ UNCHANGED <<ctrl, shutdown, stoppc, inCall, pc, op, arg, first, ret,
                   trace, startState, lastCtl, serial>>
    /\ ahead' = ReadsAhead(lock, lock')

\* `while not self._shutdown` holds: the loop asks for the lock to read one
\* status update.
PollIterate ==
    /\ pollpc = "loop"
    /\ ~shutdown
    /\ pollpc' = "read"
    /\ job' = [job EXCEPT ![Poll] = <<ReadStateUpdate>>]
    /\ lock' = Acquire(lock, Poll)
    /\ delivered' = None
    /\ UNCHANGED <<ctrl, shutdown, stoppc, inCall, pc, op, arg, first, ret,
                   trace, startState, lastCtl, serial>>
    /\ ahead' = ReadsAhead(lock, lock')

\* `while not self._shutdown` fails: the task ends.
PollExit ==
    /\ pollpc = "loop"
    /\ shutdown
    /\ pollpc' = "exited"
    /\ delivered' = None
    /\ UNCHANGED <<ctrl, shutdown, stoppc, lock, job, inCall, pc, op, arg,
                   first, ret, trace, startState, lastCtl, serial, ahead>>

\* The value a callback is invoked with, as <<type, num, den>>: the status
\* flags unscaled, every other channel divided by 2**12 - 1.
CallbackValue(ty, val) ==
    IF ty # StatusFlags THEN <<ty, val, FullScale>> ELSE <<ty, val, 1>>

\* read_state_update returns u: the lock is released, the callback of the
\* type (if any) is invoked, and the loop goes to sleep.
PollReadDone(u) ==
    /\ inCall[Poll]
    /\ inCall' = [inCall EXCEPT ![Poll] = FALSE]
    /\ job' = [job EXCEPT ![Poll] = <<>>]
    /\ lock' = Release(lock, Poll)
    /\ delivered' = IF u[1] \in CallbacksForStates
                    THEN Some(CallbackValue(u[1], u[2]))
                    ELSE None
    /\ pollpc' = "sleep"
    /\ UNCHANGED <<ctrl, shutdown, stoppc, pc, op, arg, first, ret, trace,
                   startState, lastCtl, serial>>
    /\ ahead' = ReadsAhead(lock, lock')

\* read_state_update raises: the lock is released and the exception ends
\* the task.
PollReadFault ==
    /\ inCall[Poll]
    /\ inCall' = [inCall EXCEPT ![Poll] = FALSE]
    /\ job' = [job EXCEPT ![Poll] = <<>>]
    /\ lock' = Release(lock, Poll)
    /\ pollpc' = "failed"
    /\ UNCHANGED <<ctrl, shutdown, stoppc, pc, op, arg, first, ret, trace,
                   startState, lastCtl, delivered, serial>>
    /\ ahead' = ReadsAhead(lock, lock')

\* PollWake as it would be if a loop ended by an exception were started
\* again.
PollWakeRestarts ==
    /\ pollpc \in {"sleep", "failed"}
    /\ pollpc' = "loop"
    /\ UNCHANGED <<ctrl, shutdown, stoppc, lock, job, inCall, pc, op, arg,
                   first, ret, trace, startState, lastCtl, delivered, serial,
                   ahead>>

\* The sleep at the end of an iteration is over.
PollWake ==
    /\ pollpc = "sleep"
    /\ pollpc' = "loop"
    /\ UNCHANGED <<ctrl, shutdown, stoppc, lock, job, inCall, pc, op, arg,
                   first, ret, trace, startState, lastCtl, delivered, serial,
                   ahead>>

----
\* Poller.stop.

\* PollTaskDone as it would be if stop did not await the task.
PollTaskDoneUnawaited == TRUE

PollTaskDone == pollpc \in {"exited", "failed"}

\* What `await self._poll_task` gives once the task is done: the task's
\* exception is raised again in stop (only CancelledError is suppressed).
StopOutcome == IF pollpc = "failed" THEN "raised" ELSE "returned"

\* Stop as it would be if it awaited the task without setting _shutdown.
StopWithoutFlag ==
    /\ stoppc = "idle"
    /\ stoppc' = IF PollTaskDone THEN StopOutcome ELSE "awaiting"
    /\ UNCHANGED <<ctrl, shutdown, pollpc, lock, job, inCall, pc, op, arg,
                   first, ret, trace, startState, lastCtl, delivered, serial,
                   ahead>>

Stop ==
    /\ stoppc = "idle"
    /\ shutdown' = TRUE
    /\ stoppc' = IF PollTaskDone THEN StopOutcome ELSE "awaiting"
    /\ UNCHANGED <<ctrl, pollpc, lock, job, inCall, pc, op, arg, first, ret,
                   trace, startState, lastCtl, delivered, serial, ahead>>

StopResume ==
    /\ stoppc = "awaiting"
    /\ PollTaskDone
    /\ stoppc' = StopOutcome
    /\ UNCHANGED <<ctrl, shutdown, pollpc, lock, job, inCall, pc, op, arg,
                   first, ret, trace, startState, lastCtl, delivered, serial,
                   ahead>>

----
\* The executor thread of a job: Poller._run_on_hardware, past the lock.

\* The next bus call of p's job starts.
BusStart(p) ==
    /\ Running(p)
    /\ ~inCall[p]
    /\ inCall' = [inCall EXCEPT ![p] = TRUE]
    /\ lastCtl' = IF Head(job[p]).fn = "write_control_flags"
                  THEN Some(Head(job[p]).flags)
                  ELSE lastCtl
    /\ trace' = IF p \in Clients
                THEN [trace EXCEPT ![p] = Append(@, Head(job[p]))]
                ELSE trace
    /\ UNCHANGED <<ctrl, shutdown, pollpc, stoppc, lock, job, pc, op, arg,
                   first, ret, startState, delivered, serial, ahead>>

\* A bus call that is not the last of its job returns (the first write of
\* reset_fault).
BusNext(p) ==
    /\ inCall[p]
    /\ Len(job[p]) > 1
    /\ inCall' = [inCall EXCEPT ![p] = FALSE]
    /\ job' = [job EXCEPT ![p] = Tail(@)]
    /\ lock' = HeldBetweenCalls(lock, p)
    /\ UNCHANGED <<ctrl, shutdown, pollpc, stoppc, pc, op, arg, first, ret,
                   trace, startState, lastCtl, delivered, serial>>
    /\ ahead' = ReadsAhead(lock, lock')

----
\* The voltage sequencer: Interface of setup_interface, called by one
\* client at a time (its callers serialise their calls).

\* The sequencer moves to position newpc with outcome r; a non-empty calls
\* is a Poller operation it enters: _run_on_hardware asks for the lock,
\* here l.
SeqGoto(newpc, r, calls, l) ==
    /\ pc' = [pc EXCEPT ![Seq1] = newpc]
    /\ ret' = [ret EXCEPT ![Seq1] = r]
    /\ job' = [job EXCEPT ![Seq1] = calls]
    /\ lock' = IF calls = <<>> THEN l ELSE Acquire(l, Seq1)

\* VoltsRejected as it would be without the check against voltage_factor.
VoltsRejectedBelowOnly(v) == v < 0

\* set_voltage rejects volts.
VoltsRejected(v) == v < 0 \/ v > VoltageFactor

\* NeedsEnable as it would be if only the first call enabled the output.
NeedsEnableFirstOnly(v) == v > 0 /\ ctrl = None

\* set_voltage turns the output on before programming v.
NeedsEnable(v) == v > 0 /\ (ctrl = None \/ ctrl = Some(0))

\* NeedsDisable as it would be if only the first call disabled the output.
NeedsDisableFirstOnly(v) == v = 0 /\ first

\* NeedsDisable as it would be if every set_voltage(0.0) disabled the output.
NeedsDisableAtZero(v) == v = 0

\* set_voltage turns the output off after programming v.
NeedsDisable(v) == v = 0 /\ (first \/ (ctrl # None /\ ctrl[1] > 0))

\* await poller.set_hv_set_point(set_point_volts / args.voltage_factor)
ProgramSetPoint(v, l) ==
    IF SetPointRejected(v, VoltageFactor)
    THEN SeqGoto("idle", Ret("ValueError"), <<>>, l)
    ELSE SeqGoto("sv_setpoint", Ret("none"),
                 SetPointCalls(v, VoltageFactor), l)

\* A call of the sequencer starts: o(v), where reset_fault starts with
\* set_voltage(0.0).
SeqBegin(o, v) ==
    /\ pc[Seq1] = "idle"
    /\ op' = [op EXCEPT ![Seq1] = o]
    /\ arg' = [arg EXCEPT ![Seq1] = v]
    /\ trace' = [trace EXCEPT ![Seq1] = <<>>]
    /\ startState' = ctrl
    /\ serial' = (serial /\ pc[Man] = "idle")
    /\ IF VoltsRejected(v)
       THEN /\ SeqGoto("idle", Ret("ValueError"), <<>>, lock)
            /\ UNCHANGED first
       ELSE /\ first' = (ctrl = None)
            /\ IF NeedsEnable(v)
               THEN SeqGoto("sv_enable", Ret("none"), EnableHvCalls(TRUE), lock)
               ELSE ProgramSetPoint(v, lock)
    /\ UNCHANGED <<ctrl, shutdown, pollpc, stoppc, inCall, lastCtl, delivered>>
    /\ ahead' = ReadsAhead(lock, lock')

SeqSetVoltage(v) == SeqBegin("set_voltage", v)

SeqResetFault == SeqBegin("reset_fault", 0)

SeqGetVoltage ==
    /\ pc[Seq1] = "idle"
    /\ op' = [op EXCEPT ![Seq1] = "get_voltage"]
    /\ arg' = [arg EXCEPT ![Seq1] = 0]
    /\ trace' = [trace EXCEPT ![Seq1] = <<>>]
    /\ startState' = ctrl
    /\ serial' = (serial /\ pc[Man] = "idle")
    /\ ret' = [ret EXCEPT ![Seq1] = RetValue(ctrl)]
    /\ UNCHANGED <<ctrl, shutdown, pollpc, stoppc, lock, job, inCall, pc,
                   first, lastCtl, delivered, ahead>>

\* The last bus call of the sequencer's job returns: the lock is released
\* and the coroutine goes on.
SeqJobReturns(at) ==
    /\ pc[Seq1] = at
    /\ inCall[Seq1]
    /\ Len(job[Seq1]) = 1
    /\ inCall' = [inCall EXCEPT ![Seq1] = FALSE]

\* SetVoltageResult as it would be with != in place of math.isclose.
SetVoltageResultExact(isFirst, previous, v) ==
    isFirst \/ previous[1] # v

\* return first or not math.isclose(previous_volts, set_point_volts)
SetVoltageResult(isFirst, previous, v) ==
    isFirst \/ ~IsClose(previous[1], v)

\* The end of set_voltage: the set point is stored and the result computed;
\* reset_fault goes on with poller.reset_fault().
Commit(l) ==
    /\ ctrl' = Some(arg[Seq1])
    /\ IF op[Seq1] = "reset_fault"
       THEN SeqGoto("rf_reset", Ret("none"), ResetFaultCalls, l)
       ELSE SeqGoto("idle",
                    IF SetVoltageResult(first, ctrl, arg[Seq1])
                    THEN Ret("true") ELSE Ret("false"),
                    <<>>, l)

\* SeqEnabled as it would be if the soft-start sleep were taken inside the
\* lock.
SeqEnabledHolding ==
    /\ SeqJobReturns("sv_enable")
    /\ SeqGoto("sv_softstart", Ret("none"), <<>>, lock)
    /\ trace' = [trace EXCEPT ![Seq1] = Append(@, SettleDelay)]
    /\ UNCHANGED <<ctrl, shutdown, pollpc, stoppc, op, arg, first,
                   startState, lastCtl, delivered, serial>>
    /\ ahead' = ReadsAhead(lock, lock')

\* enable_hv(True) is done: the soft-start sleep begins.
SeqEnabled ==
    /\ SeqJobReturns("sv_enable")
    /\ SeqGoto("sv_softstart", Ret("none"), <<>>, Release(lock, Seq1))
    /\ trace' = [trace EXCEPT ![Seq1] = Append(@, SettleDelay)]
    /\ UNCHANGED <<ctrl, shutdown, pollpc, stoppc, op, arg, first,
                   startState, lastCtl, delivered, serial>>
    /\ ahead' = ReadsAhead(lock, lock')

\* The soft-start sleep is over: the set point is programmed.
SeqSoftStarted ==
    /\ pc[Seq1] = "sv_softstart"
    /\ ProgramSetPoint(arg[Seq1], lock)
    /\ UNCHANGED <<ctrl, shutdown, pollpc, stoppc, inCall, op, arg, first,
                   trace, startState, lastCtl, delivered, serial>>
    /\ ahead' = ReadsAhead(lock, lock')

\* SeqRampDown as it would be if the set point were stored as soon as it
\* is programmed, before the output is turned off.
SeqRampDownStores ==
    /\ SeqJobReturns("sv_setpoint")
    /\ NeedsDisable(arg[Seq1])
    /\ SeqGoto("sv_rampdown", Ret("none"), <<>>, Release(lock, Seq1))
    /\ trace' = [trace EXCEPT ![Seq1] = Append(@, SettleDelay)]
    /\ ctrl' = Some(arg[Seq1])
    /\ UNCHANGED <<shutdown, pollpc, stoppc, op, arg, first,
                   startState, lastCtl, delivered, serial>>
    /\ ahead' = ReadsAhead(lock, lock')

\* set_hv_set_point is done and the output has to be turned off: the
\* ramp-down sleep begins.
SeqRampDown ==
    /\ SeqJobReturns("sv_setpoint")
    /\ NeedsDisable(arg[Seq1])
    /\ SeqGoto("sv_rampdown", Ret("none"), <<>>, Release(lock, Seq1))
    /\ trace' = [trace EXCEPT ![Seq1] = Append(@, SettleDelay)]
    /\ UNCHANGED <<ctrl, shutdown, pollpc, stoppc, op, arg, first,
                   startState, lastCtl, delivered, serial>>
    /\ ahead' = ReadsAhead(lock, lock')

\* set_hv_set_point is done and nothing is left to do.
SeqProgrammed ==
    /\ SeqJobReturns("sv_setpoint")
    /\ ~NeedsDisable(arg[Seq1])
    /\ Commit(Release(lock, Seq1))
    /\ UNCHANGED <<shutdown, pollpc, stoppc, op, arg, first, trace,
                   startState, lastCtl, delivered, serial>>
    /\ ahead' = ReadsAhead(lock, lock')

\* The ramp-down sleep is over: enable_hv(False).
SeqRampedDown ==
    /\ pc[Seq1] = "sv_rampdown"
    /\ SeqGoto("sv_disable", Ret("none"), EnableHvCalls(FALSE), lock)
    /\ UNCHANGED <<ctrl, shutdown, pollpc, stoppc, inCall, op, arg, first,
                   trace, startState, lastCtl, delivered, serial>>
    /\ ahead' = ReadsAhead(lock, lock')

\* enable_hv(False) is done.
SeqDisabled ==
    /\ SeqJobReturns("sv_disable")
    /\ Commit(Release(lock, Seq1))
    /\ UNCHANGED <<shutdown, pollpc, stoppc, op, arg, first, trace,
                   startState, lastCtl, delivered, serial>>
    /\ ahead' = ReadsAhead(lock, lock')

\* poller.reset_fault() is done: Interface.reset_fault returns.
SeqResetDone ==
    /\ SeqJobReturns("rf_reset")
    /\ SeqGoto("idle", Ret("ok"), <<>>, Release(lock, Seq1))
    /\ UNCHANGED <<ctrl, shutdown, pollpc, stoppc, op, arg, first, trace,
                   startState, lastCtl, delivered, serial>>
    /\ ahead' = ReadsAhead(lock, lock')

----
\* A client that calls the Poller's control operations directly.

ManBegin(o, a, rejected, calls) ==
    /\ pc[Man] = "idle"
    /\ op' = [op EXCEPT ![Man] = o]
    /\ arg' = [arg EXCEPT ![Man] = a]
    /\ trace' = [trace EXCEPT ![Man] = <<>>]
    /\ serial' = (serial /\ pc[Seq1] = "idle")
    /\ IF rejected
       THEN /\ ret' = [ret EXCEPT ![Man] = Ret("ValueError")]
            /\ UNCHANGED <<pc, job, lock>>
       ELSE /\ ret' = [ret EXCEPT ![Man] = Ret("none")]
            /\ pc' = [pc EXCEPT ![Man] = "busy"]
            /\ job' = [job EXCEPT ![Man] = calls]
            /\ lock' = Acquire(lock, Man)
    /\ UNCHANGED <<ctrl, shutdown, pollpc, stoppc, inCall, first, startState,
                   lastCtl, delivered>>
    /\ ahead' = ReadsAhead(lock, lock')

ManEnableHv(enabled) ==
    ManBegin("enable_hv", IF enabled THEN 1 ELSE 0, FALSE,
             EnableHvCalls(enabled))

ManSetPoint(n) ==
    ManBegin("set_hv_set_point", n, SetPointRejected(n, SetPointDen),
             IF SetPointRejected(n, SetPointDen) THEN <<>>
             ELSE SetPointCalls(n, SetPointDen))

ManResetFault == ManBegin("reset_fault", 0, FALSE, ResetFaultCalls)

\* The last bus call of the operation returns.
ManDone ==
    /\ pc[Man] = "busy"
    /\ inCall[Man]
    /\ Len(job[Man]) = 1
    /\ inCall' = [inCall EXCEPT ![Man] = FALSE]
    /\ job' = [job EXCEPT ![Man] = <<>>]
    /\ lock' = Release(lock, Man)
    /\ pc' = [pc EXCEPT ![Man] = "idle"]
    /\ ret' = [ret EXCEPT ![Man] = Ret("ok")]
    /\ UNCHANGED <<ctrl, shutdown, pollpc, stoppc, op, arg, first, trace,
                   startState, lastCtl, delivered, serial>>
    /\ ahead' = ReadsAhead(lock, lock')

\* WriteFault as it would be if the exception left the lock taken.
WriteFaultKeepsLock(p) ==
    /\ inCall[p]
    /\ inCall' = [inCall EXCEPT ![p] = FALSE]
    /\ job' = [job EXCEPT ![p] = <<>>]
    /\ pc' = [pc EXCEPT ![p] = "idle"]
    /\ ret' = [ret EXCEPT ![p] = Ret("TransportError")]
    /\ UNCHANGED <<ctrl, shutdown, pollpc, stoppc, lock, op, arg, first, trace,
                   startState, lastCtl, delivered, serial, ahead>>

\* WriteFault as it would be if set_voltage stored the set point on its way
\* out, whether or not its writes succeeded.
WriteFaultStores(p) ==
    /\ inCall[p]
    /\ inCall' = [inCall EXCEPT ![p] = FALSE]
    /\ job' = [job EXCEPT ![p] = <<>>]
    /\ lock' = Release(lock, p)
    /\ pc' = [pc EXCEPT ![p] = "idle"]
    /\ ret' = [ret EXCEPT ![p] = Ret("TransportError")]
    /\ ctrl' = IF p = Seq1 /\ pc[p] \in {"sv_enable", "sv_setpoint", "sv_disable"}
               THEN Some(arg[p]) ELSE ctrl
    /\ UNCHANGED <<shutdown, pollpc, stoppc, op, arg, first, trace,
                   startState, lastCtl, delivered, serial>>
    /\ ahead' = ReadsAhead(lock, lock')

\* A bus write of client p raises: the rest of the job is not run, the lock
\* is released and the exception ends the client's call.
WriteFault(p) ==
    /\ inCall[p]
    /\ inCall' = [inCall EXCEPT ![p] = FALSE]
    /\ job' = [job EXCEPT ![p] = <<>>]
    /\ lock' = Release(lock, p)
    /\ pc' = [pc EXCEPT ![p] = "idle"]
    /\ ret' = [ret EXCEPT ![p] = Ret("TransportError")]
    /\ UNCHANGED <<ctrl, shutdown, pollpc, stoppc, op, arg, first, trace,
                   startState, lastCtl, delivered, serial>>
    /\ ahead' = ReadsAhead(lock, lock')

----
Next ==
    \/ PollIterate
    \/ PollExit
    \/ \E u \in StateUpdates : PollReadDone(u)
    \/ PollReadFault
    \/ PollWake
    \/ Stop
    \/ StopResume
    \/ \E p \in Procs : BusStart(p)
    \/ \E p \in Clients : BusNext(p)
    \/ \E v \in VoltInputs : SeqSetVoltage(v)
    \/ SeqResetFault
    \/ SeqGetVoltage
    \/ SeqEnabled
    \/ SeqSoftStarted
    \/ SeqRampDown
    \/ SeqProgrammed
    \/ SeqRampedDown
    \/ SeqDisabled
    \/ SeqResetDone
    \/ \E b \in BOOLEAN : ManEnableHv(b)
    \/ \E n \in SetPointInputs : ManSetPoint(n)
    \/ ManResetFault
    \/ ManDone
    \/ \E p \in Clients : WriteFault(p)

Spec == Init /\ [][Next]_vars

----
\* Properties.

\* The steps of a call's trace, without the raw value of a set-point write.
StepKind(e) == <<e.fn, e.flags>>
Kinds(t) == [i \in 1..Len(t) |-> StepKind(t[i])]
IsPrefix(a, b) == Len(a) <= Len(b) /\ SubSeq(b, 1, Len(a)) = a
EnableStep == <<"write_control_flags", {"hv_on"}>>
DisableStep == <<"write_control_flags", {}>>
ResetStep == <<"write_control_flags", {"reset"}>>
ProgramStep == <<"write_hv_set_point", {}>>
SleepStep == <<"sleep", {}>>

\* The call of client p has ended by returning (not by raising).
Returned(p) == pc[p] = "idle" /\ ret[p].kind \in {"ok", "true", "false"}

\* Client p is inside Poller.reset_fault.
InPollerReset(p) ==
    \/ p = Man /\ pc[Man] = "busy" /\ op[Man] = "reset_fault"
    \/ p = Seq1 /\ pc[Seq1] = "rf_reset"

\* C1: at most one bus transaction (a poll read or a control write) is in
\* progress at any time, however the poll loop and the control operations
\* interleave.
C1_OneBusCallAtATime == Cardinality({p \in Procs : inCall[p]}) <= 1

\* A control write is in progress while the poll loop and the other client
\* both wait for the lock.
C1_Witness == inCall[Man] /\ Len(lock.waiters) = 2

\* C2: Poller.reset_fault issues exactly the writes {reset} then {}, and
\* from the start of the first to the start of the second no other process
\* has a bus call in progress: the two are adjacent in the order of bus
\* calls.
C2_ResetPulseAtomic ==
    \A p \in Clients : InPollerReset(p) =>
        LET t == Kinds(trace[p])
            n == Len(t)
        IN  /\ Len(job[p]) = 2 /\ inCall[p] =>
                /\ t[n] = ResetStep
                /\ \A q \in Procs \ {p} : ~inCall[q]
            /\ Len(job[p]) = 1 =>
                /\ job[p] = <<WriteControlFlags({})>>
                /\ \A q \in Procs \ {p} : ~inCall[q]
                /\ ~inCall[p] => t[n] = ResetStep
                /\ inCall[p] => n >= 2 /\ t[n - 1] = ResetStep
                                       /\ t[n] = DisableStep
                /\ p = Man => n = (IF inCall[p] THEN 2 ELSE 1)

\* The first write of a reset pulse has returned and the second has not
\* started, while the poll loop waits for the lock.
C2_Witness ==
    /\ InPollerReset(Man)
    /\ Len(job[Man]) = 1
    /\ ~inCall[Man]
    /\ lock.waiters # <<>>
    /\ Head(lock.waiters) = Poll

\* C3: when the sequencer's reset_fault is about to issue its {reset} write,
\* after calls that never overlapped, the most recent control write had
\* hv_on cleared.
C3_OutputOffBeforeReset ==
    (serial /\ pc[Seq1] = "rf_reset" /\ Len(job[Seq1]) = 2 /\ ~inCall[Seq1])
        => (lastCtl # None /\ "hv_on" \notin lastCtl[1])

\* C4: set_voltage(volts) with volts < 0 or volts > voltage_factor raises
\* ValueError with no bus call, no lock request, no settle delay and
\* ControllerState as it was.
C4_RejectedUntouched ==
    (op[Seq1] = "set_voltage"
        /\ (arg[Seq1] < 0 \/ arg[Seq1] > VoltageFactor)) =>
        /\ pc[Seq1] = "idle"
        /\ ret[Seq1].kind = "ValueError"
        /\ trace[Seq1] = <<>>
        /\ job[Seq1] = <<>>
        /\ ~inCall[Seq1]
        /\ ~Waiting(Seq1)
        /\ lock.holder # Seq1
        /\ ctrl = startState

\* A set_voltage above voltage_factor was rejected with a set point already
\* programmed.
C4_Witness ==
    /\ op[Seq1] = "set_voltage"
    /\ arg[Seq1] > VoltageFactor
    /\ ret[Seq1].kind = "ValueError"
    /\ ctrl # None

\* C5: a valid set_voltage(v), v > 0, started with ControllerState unknown
\* or 0 performs the enable write, the soft-start delay and the set-point
\* write, in this order; started with a known value > 0 it performs the
\* set-point write alone.
C5_EnableDelayProgram ==
    (op[Seq1] = "set_voltage"
        /\ arg[Seq1] > 0 /\ arg[Seq1] <= VoltageFactor) =>
        LET want == IF startState = None \/ startState = Some(0)
                    THEN <<EnableStep, SleepStep, ProgramStep>>
                    ELSE <<ProgramStep>>
        IN  /\ IsPrefix(Kinds(trace[Seq1]), want)
            /\ Returned(Seq1) => Kinds(trace[Seq1]) = want

\* A set_voltage(v), v > 0, has returned that started from a known 0.
C5_Witness ==
    /\ op[Seq1] = "set_voltage"
    /\ arg[Seq1] > 0
    /\ startState = Some(0)
    /\ Returned(Seq1)

\* C6: set_voltage(0) started with ControllerState unknown or > 0 performs
\* the set-point write of zero, the ramp-down delay and the disable write,
\* in this order; started with a known 0 it performs the set-point write
\* alone and returns false.
C6_ProgramDelayDisable ==
    (op[Seq1] = "set_voltage" /\ arg[Seq1] = 0) =>
        LET want == IF startState = Some(0)
                    THEN <<ProgramStep>>
                    ELSE <<ProgramStep, SleepStep, DisableStep>>
        IN  /\ IsPrefix(Kinds(trace[Seq1]), want)
            /\ trace[Seq1] # <<>> => trace[Seq1][1].raw = 0
            /\ Returned(Seq1) =>
                /\ Kinds(trace[Seq1]) = want
                /\ startState = Some(0) => ret[Seq1].kind = "false"

\* The second of two successive set_voltage(0.0) has returned.
C6_Witness ==
    /\ op[Seq1] = "set_voltage"
    /\ arg[Seq1] = 0
    /\ startState = Some(0)
    /\ Returned(Seq1)

\* C7 as stated: a completed set_voltage(v) returns true if and only if
\* ControllerState was unknown or its value differs from v.
C7_TrueIffDifferent ==
    (op[Seq1] = "set_voltage" /\ Returned(Seq1)) =>
        (ret[Seq1].kind = "true"
            <=> (startState = None \/ startState[1] # arg[Seq1]))

\* C7 as amended: a completed set_voltage(v) returns true if and only if
\* ControllerState was unknown or its value is not close to v in the sense
\* of math.isclose (relative tolerance 1e-9); it returns false exactly when
\* the previous value is close to v, in particular when it equals v.
C7_TrueIffNotClose ==
    (op[Seq1] = "set_voltage" /\ Returned(Seq1)) =>
        /\ ret[Seq1].kind = "true"
            <=> (startState = None \/ ~IsClose(startState[1], arg[Seq1]))
        /\ startState = Some(arg[Seq1]) => ret[Seq1].kind = "false"

\* set_voltage(x) straight after set_voltage(x), x > 0, has returned false.
C7_Witness ==
    /\ op[Seq1] = "set_voltage"
    /\ Returned(Seq1)
    /\ arg[Seq1] > 0
    /\ startState = Some(arg[Seq1])
    /\ ret[Seq1].kind = "false"

\* C8: once stop() has returned the poll loop has exited: it holds and
\* awaits no lock, has no read pending or in progress, and no callback is
\* invoked.
C8_StoppedMeansExited ==
    stoppc = "returned" =>
        /\ pollpc = "exited"
        /\ job[Poll] = <<>>
        /\ ~inCall[Poll]
        /\ ~Waiting(Poll)
        /\ lock.holder # Poll
        /\ delivered = None

\* stop() has returned while a control write is in progress.
C8_Witness == stoppc = "returned" /\ \E p \in Clients : inCall[p]

\* A step that ends a set_voltage whose writes all succeeded.
SetVoltageCompletes ==
    /\ pc[Seq1] \in {"sv_setpoint", "sv_disable"}
    /\ \/ pc'[Seq1] = "rf_reset"
       \/ pc'[Seq1] = "idle" /\ ret'[Seq1].kind \in {"true", "false"}

\* C9: ControllerState starts unknown, changes only in the step that ends a
\* set_voltage whose writes all succeeded, and is then that call's
\* argument; get_voltage returns it.
C9_StateOnlyBySetVoltage ==
    /\ ctrl = None
    /\ [][/\ ctrl' # ctrl => SetVoltageCompletes
          /\ SetVoltageCompletes => ctrl' = Some(arg[Seq1])
          /\ (op'[Seq1] = "get_voltage" /\ ret'[Seq1] # ret[Seq1])
                => ret'[Seq1] = RetValue(ctrl) /\ ctrl' = ctrl
          /\ op[Seq1] = "get_voltage"
                => ret[Seq1] = RetValue(ctrl)]_vars

\* get_voltage has returned a programmed voltage after a callback was
\* invoked and a direct Poller operation returned.
C9_Witness ==
    /\ op[Seq1] = "get_voltage"
    /\ ret[Seq1].val # None
    /\ ret[Man].kind = "ok"
    /\ delivered # None

\* C10: Poller.set_hv_set_point(value) with value outside [0, 1] raises
\* ValueError without asking for the lock and without a bus write; with
\* value in [0, 1] it issues exactly one write_hv_set_point, of the integer
\* nearest to value * 4095 (a tie to the even one); every
\* write_hv_set_point of any caller carries a raw value in 0..4095.
C10_SetPointInRange ==
    /\ \A p \in Clients :
          /\ \A i \in 1..Len(job[p]) :
                job[p][i].fn = "write_hv_set_point"
                    => job[p][i].raw \in 0..FullScale
          /\ \A i \in 1..Len(trace[p]) :
                trace[p][i].fn = "write_hv_set_point"
                    => trace[p][i].raw \in 0..FullScale
    /\ op[Man] = "set_hv_set_point" =>
          IF arg[Man] < 0 \/ arg[Man] > SetPointDen
          THEN /\ pc[Man] = "idle"
               /\ ret[Man].kind = "ValueError"
               /\ job[Man] = <<>>
               /\ trace[Man] = <<>>
               /\ ~Waiting(Man)
               /\ lock.holder # Man
          ELSE LET w == IF job[Man] # <<>> THEN job[Man] ELSE trace[Man]
                   err == w[1].raw * SetPointDen - FullScale * arg[Man]
               IN  /\ ret[Man].kind # "ValueError"
                   /\ Len(w) = 1
                   /\ w[1].fn = "write_hv_set_point"
                   /\ 2 * Abs(err) <= SetPointDen
                   /\ 2 * Abs(err) = SetPointDen => w[1].raw % 2 = 0
                   /\ IsPrefix(trace[Man], w)
                   /\ (inCall[Man] \/ pc[Man] = "idle") => trace[Man] = w

\* The write of a set point strictly between 0 and 1 is in progress.
C10_Witness ==
    /\ op[Man] = "set_hv_set_point"
    /\ arg[Man] > 0
    /\ arg[Man] < SetPointDen
    /\ inCall[Man]

\* The poll loop neither holds nor awaits the lock, has no read pending or
\* in progress, and the current iteration has invoked no callback.
PollQuiet ==
    /\ job[Poll] = <<>>
    /\ ~inCall[Poll]
    /\ ~Waiting(Poll)
    /\ lock.holder # Poll
    /\ delivered = None

\* C11: once a poll read has raised, the loop is dead for good: it never
\* leaves that state, issues no further read and invokes no callback.
C11_FailedLoopStaysDead ==
    /\ [](pollpc = "failed" => PollQuiet)
    /\ [][pollpc = "failed" => pollpc' = "failed"]_vars

\* The loop has died and a control write is in progress afterwards.
C11_Witness == pollpc = "failed" /\ inCall[Seq1]

\* C12: once the loop has died from a fault, the Poller executes no control
\* operation unless the failure has been reported (here: raised by stop()).
C12_DeadLoopReported ==
    (pollpc = "failed" /\ stoppc # "raised") => \A p \in Clients : ~inCall[p]

\* C14: during a settle delay of set_voltage the sequencer neither holds
\* nor awaits the bus lock and has no job: the poll loop and other control
\* operations can take the lock.
C14_DelayWithoutLock ==
    pc[Seq1] \in {"sv_softstart", "sv_rampdown"} =>
        /\ lock.holder # Seq1
        /\ ~Waiting(Seq1)
        /\ job[Seq1] = <<>>
        /\ ~inCall[Seq1]

\* A poll read is in progress during the soft-start delay.
C14_Witness == pc[Seq1] = "sv_softstart" /\ inCall[Poll]

\* C15: a control operation whose bus write raised has ended with the
\* exception at its caller, has started no further write, and holds no
\* lock: the lock is only ever held by a process with a job to run, so the
\* poll loop and later operations get it.
C15_FaultReleasesLock ==
    /\ \A p \in Procs : lock.holder = p => job[p] # <<>>
    /\ lock.waiters # <<>> => lock.holder # NoProc
    /\ \A p \in Clients :
          /\ pc[p] = "idle" =>
                /\ job[p] = <<>>
                /\ ~inCall[p]
                /\ ~Waiting(p)
                /\ lock.holder # p
          /\ (pc[p] = "idle" /\ ret[p].kind = "TransportError") =>
                /\ trace[p] # <<>>
                /\ trace[p][Len(trace[p])].fn # "sleep"
    /\ (pc[Man] = "idle" /\ op[Man] = "reset_fault"
            /\ Kinds(trace[Man]) = <<ResetStep>>)
          => ret[Man].kind = "TransportError"

\* A direct control write has raised and a poll read is in progress
\* afterwards.
C15_Witness ==
    /\ pc[Man] = "idle"
    /\ ret[Man].kind = "TransportError"
    /\ inCall[Poll]

\* C16: a valid set_voltage(volts) that returns has issued exactly one
\* set-point write, of the integer nearest to 4095 * volts /
\* voltage_factor, whichever writes and delays surround it and also when
\* it returns false.
C16_OneSetPointWrite ==
    (op[Seq1] = "set_voltage" /\ Returned(Seq1)) =>
        LET t == trace[Seq1]
            w == {i \in 1..Len(t) : t[i].fn = "write_hv_set_point"}
        IN  /\ Cardinality(w) = 1
            /\ \A i \in w :
                  /\ t[i].raw \in 0..FullScale
                  /\ arg[Seq1] = 0 => t[i].raw = 0
                  /\ (arg[Seq1] > 0
                        /\ VoltageFactor - arg[Seq1]
                              <= VoltageFactor \div (2 * FullScale))
                        => t[i].raw = FullScale

\* A set_voltage has returned false for a voltage close to, not equal to,
\* the previous one, after its set-point write.
C16_Witness ==
    /\ op[Seq1] = "set_voltage"
    /\ Returned(Seq1)
    /\ ret[Seq1].kind = "false"
    /\ startState # Some(arg[Seq1])
    /\ Len(trace[Seq1]) = 1

\* C18: with the shutdown flag set the poll loop only moves forward, from a
\* read requested before to the sleep after it, to the loop condition, to
\* the exit: no read is requested any more, so at most one read completes
\* and at most one callback is invoked after the flag is set.
C18_OneLastIteration ==
    [][shutdown =>
        /\ pollpc = "read" => pollpc' \in {"read", "sleep", "failed"}
        /\ pollpc = "sleep" => pollpc' \in {"sleep", "loop"}
        /\ pollpc = "loop" => pollpc' \in {"loop", "exited"}
        /\ pollpc \in {"exited", "failed"} => pollpc' = pollpc
        /\ delivered' # delivered =>
              \/ delivered' = None
              \/ pollpc = "read" /\ pollpc' = "sleep"]_vars

\* stop() is waiting for the loop while a read is in progress.
C18_Witness == shutdown /\ stoppc = "awaiting" /\ inCall[Poll]

\* The steps of a whole set_voltage(v) started with ControllerState st.
FullSequence(st, v) ==
    IF v > 0
    THEN IF st = None \/ st = Some(0)
         THEN <<EnableStep, SleepStep, ProgramStep>>
         ELSE <<ProgramStep>>
    ELSE IF st = Some(0)
         THEN <<ProgramStep>>
         ELSE <<ProgramStep, SleepStep, DisableStep>>

\* C19: a set_voltage (also the one reset_fault starts with) that ended
\* with a transport fault stopped at the write that raised, with none of
\* the later steps of its sequence, and left ControllerState as it was when
\* the call started.
C19_FaultLeavesState ==
    (op[Seq1] \in {"set_voltage", "reset_fault"}
        /\ pc[Seq1] = "idle"
        /\ ret[Seq1].kind = "TransportError"
        /\ \A i \in 1..Len(trace[Seq1]) :
              StepKind(trace[Seq1][i]) # ResetStep) =>
        /\ ctrl = startState
        /\ trace[Seq1] # <<>>
        /\ trace[Seq1][Len(trace[Seq1])].fn # "sleep"
        /\ IsPrefix(Kinds(trace[Seq1]), FullSequence(startState, arg[Seq1]))
        /\ job[Seq1] = <<>>

\* The enable write succeeded and the set-point write after it raised.
C19_Witness ==
    /\ op[Seq1] = "set_voltage"
    /\ pc[Seq1] = "idle"
    /\ ret[Seq1].kind = "TransportError"
    /\ startState = Some(0)
    /\ Kinds(trace[Seq1]) = <<EnableStep, SleepStep, ProgramStep>>

----
\* The program driven through the sequencer alone, with every bus write
\* succeeding: no direct caller of the Poller's control operations and no
\* write that raises.
SeqOnlyNext ==
    \/ PollIterate
    \/ PollExit
    \/ \E u \in StateUpdates : PollReadDone(u)
    \/ PollReadFault
    \/ PollWake
    \/ Stop
    \/ StopResume
    \/ \E p \in {Poll, Seq1} : BusStart(p)
    \/ BusNext(Seq1)
    \/ \E v \in VoltInputs : SeqSetVoltage(v)
    \/ SeqResetFault
    \/ SeqGetVoltage
    \/ SeqEnabled
    \/ SeqSoftStarted
    \/ SeqRampDown
    \/ SeqProgrammed
    \/ SeqRampedDown
    \/ SeqDisabled
    \/ SeqResetDone

SeqOnlySpec == Init /\ [][SeqOnlyNext]_vars

\* C20: with only the sequencer driving the hardware and no write raising,
\* whenever no sequencer call is in progress a ControllerState of 0 means
\* the last control write had hv_on cleared, and a ControllerState above 0
\* means the last control write was {hv_on}.
C20_StateMatchesOutput ==
    pc[Seq1] = "idle" =>
        /\ ctrl = Some(0) => (lastCtl # None /\ "hv_on" \notin lastCtl[1])
        /\ (ctrl # None /\ ctrl[1] > 0) => lastCtl = Some({"hv_on"})

\* A set_voltage(0.0) that found the set point at 0 already has returned
\* without a control write of its own.
C20_Witness ==
    /\ pc[Seq1] = "idle"
    /\ op[Seq1] = "set_voltage"
    /\ ctrl = Some(0)
    /\ startState = Some(0)
    /\ Kinds(trace[Seq1]) = <<ProgramStep>>

----
\* The scheduling of the event loop and the executor: a coroutine that can
\* go on is run, and a bus call that has been handed to the executor
\* starts and comes back. Nothing obliges a caller to begin a call or a
\* write to raise.
PollSteps ==
    \/ PollIterate
    \/ PollExit
    \/ \E u \in StateUpdates : PollReadDone(u)
    \/ PollReadFault
    \/ PollWake
    \/ BusStart(Poll)

SeqSteps ==
    \/ BusStart(Seq1)
    \/ BusNext(Seq1)
    \/ SeqEnabled
    \/ SeqSoftStarted
    \/ SeqRampDown
    \/ SeqProgrammed
    \/ SeqRampedDown
    \/ SeqDisabled
    \/ SeqResetDone

ManSteps ==
    \/ BusStart(Man)
    \/ BusNext(Man)
    \/ ManDone

Fairness ==
    /\ WF_vars(PollSteps)
    /\ WF_vars(SeqSteps)
    /\ WF_vars(ManSteps)
    /\ WF_vars(StopResume)

\* The calls tried under fairness: the sequencer turns the output on and
\* off and resets a fault, a direct caller resets a fault, any write may
\* raise.
LiveNext ==
    \/ PollIterate
    \/ PollExit
    \/ \E u \in StateUpdates : PollReadDone(u)
    \/ PollReadFault
    \/ PollWake
    \/ Stop
    \/ StopResume
    \/ \E p \in Procs : BusStart(p)
    \/ \E p \in Clients : BusNext(p)
    \/ \E v \in {0, VoltageFactor} : SeqSetVoltage(v)
    \/ SeqResetFault
    \/ SeqEnabled
    \/ SeqSoftStarted
    \/ SeqRampDown
    \/ SeqProgrammed
    \/ SeqRampedDown
    \/ SeqDisabled
    \/ SeqResetDone
    \/ ManResetFault
    \/ ManDone
    \/ \E p \in Clients : WriteFault(p)

FairSpec == Init /\ [][LiveNext]_vars /\ Fairness

\* C13: a control operation waiting for the lock sees at most one poll
\* read have the lock before its own turn, the read in progress when it
\* was invoked included; and, with bus calls returning, every operation
\* that has a bus call to make gets to make it.
C13_OneReadCycleLatency ==
    /\ [](\A p \in Clients : ahead[p] <= 1)
    /\ \A p \in Clients : (job[p] # <<>> /\ ~inCall[p]) ~> inCall[p]

\* Both clients were invoked during one poll read and wait behind it.
C13_Witness ==
    /\ inCall[Poll]
    /\ lock.waiters = <<Man, Seq1>>
    /\ ahead[Man] = 1
    /\ ahead[Seq1] = 1

\* C17: once stop() waits for the loop it gets its answer: it returns after
\* the loop has exited, or raises what a poll read raised. The loop exits
\* only at its condition, with the flag set, with no read in progress and
\* without the lock; a read in progress when the flag is set ends as any
\* other read does, the lock given up.
C17_StopTerminates ==
    /\ (stoppc = "awaiting") ~> (stoppc \in {"returned", "raised"})
    /\ [](stoppc = "returned" => pollpc = "exited")
    /\ [](stoppc = "raised" => pollpc = "failed")
    /\ [](pollpc = "exited" =>
            /\ job[Poll] = <<>>
            /\ ~inCall[Poll]
            /\ lock.holder # Poll
            /\ ~Waiting(Poll))
    /\ [][(pollpc # "exited" /\ pollpc' = "exited") =>
            (pollpc = "loop" /\ shutdown)]_vars
    /\ [][(inCall[Poll] /\ ~inCall'[Poll]) =>
            /\ pollpc' \in {"sleep", "failed"}
            /\ lock'.holder # Poll
            /\ job'[Poll] = <<>>]_vars

\* stop() waits while the loop is queued for the lock behind a control
\* operation of the sequencer.
C17_Witness ==
    /\ stoppc = "awaiting"
    /\ Waiting(Poll)
    /\ lock.holder = Seq1
    /\ inCall[Seq1]

====
